---- MODULE Spec2Model ----
(***************************************************************************)
(* Model of the secret-management and transaction-lifecycle subsystem of   *)
(* GoSignerVaultCLI:                                                       *)
(*   - tx.Monitor        (src/tx/transaction.go, second file, l.63-221)    *)
(*   - core.BatchSigner  (src/unnamed/part_002)                            *)
(*   - tx.History        (src/tx/history.go)                               *)
(*   - keystore cipher   (src/keystore/encrypt.go)                         *)
(*   - keystore.Manager  (src/keystore/keystore.go) and the backups        *)
(*                       (src/keystore/backup.go)                          *)
(* Each component has its own specifications (SpecMonitor, SpecReaders,    *)
(* SpecPolling, SpecReentrant and SpecRegistry; SpecBatch; SpecHistory,    *)
(* SpecStore and SpecRecent; SpecCipher; SpecKeystore and SpecBackup); the *)
(* variables of the other components stay at their initial value.          *)
(***************************************************************************)
EXTENDS Integers, Sequences, FiniteSets, TLC

\* ------------------------------------------------------------------------
\* Bounds
\* ------------------------------------------------------------------------
\* number of callback registrations the monitor holds, all hashes together
MaxRegistrations == 2
\* number of transactions in one SignBatch call
MaxBatch == 3
\* number of AddTransaction calls made on the history store
MaxAppends == 3

\* ------------------------------------------------------------------------
\* Monitor: values
\* ------------------------------------------------------------------------
Hashes == {"h1", "h2"}
\* cbA1 and cbA2 are two closures of the same function literal, cbB another
Callbacks == {"cbA1", "cbA2", "cbB"}
\* the callbacks the callers of SpecMonitor register
MonCallbacks == {"cbA1", "cbB"}
\* a callback whose body calls m.GetStatus(hash) on the monitor that runs it
ReentrantCallbacks == {"cbR"}
Callers == {"c1"}
\* the gas used and the block number the ledger reports in a receipt
GasVals == {21}
BlockNums == {7}

\* a hash with no entry in a map
NoStatus == [Status |-> "absent"]
NoRes == [kind |-> "none"]
NoArgs == [status |-> "none"]
NoGot == [ref |-> "nil", err |-> "none", snap |-> NoStatus]
NoHolder == "unlocked"

Terminal == {"success", "failed", "error"}

VARIABLES
    \* ---- tx.Monitor
    statuses,    \* Monitor.statuses: hash -> *TransactionStatus (the record pointed to)
    callbacks,   \* Monitor.callbacks: hash -> slice of callbacks
    mu,          \* Monitor.mu: the hash whose polling task holds the write lock
    pc,          \* position of the polling goroutine of each hash
    cancelled,   \* ctx.Done() of the context given to MonitorTransaction(hash)
    res,         \* (receipt, err) of the last TransactionReceipt call of the task
    args,        \* arguments of the task's updateStatus call
    cbList,      \* the slice the range loop of updateStatus iterates over
    cbIdx,       \* number of callbacks the range loop has invoked
    invoked,     \* per hash: the callback invocations made, with the record seen
    monErr,      \* what the last MonitorTransaction call returned
    got,         \* per caller: what the last GetStatus call returned
    \* ---- core.BatchSigner
    requests,    \* the transactions argument of SignBatch
    wpc,         \* position of each signing goroutine
    wres,        \* the local result of each signing goroutine
    resultChan,  \* the buffered channel of (index, result)
    chanClosed,  \* resultChan has been closed
    wg,          \* the WaitGroup counter
    results,     \* the results slice of SignBatch
    bpc,         \* position of SignBatch itself
    key,         \* what bs.wallet.PrivateKey holds: the secret scalar or zeroes
    \* ---- tx.History
    records,     \* History.records
    file,        \* content of the history file
    hpc,         \* position of each AddTransaction call
    hrec,        \* the record built by each AddTransaction call
    hdata,       \* the marshalled document of each call's save()
    hret,        \* return value of each AddTransaction call
    hclock,      \* time.Now() of the history store
    hgot,        \* what the last GetTransaction call returned
    hload,       \* what load() returned at the last start of the store
    hok,         \* per hash: the record of the last append that returned nil
    hrecent,     \* what the last GetRecentTransactions call returned
    \* ---- keystore cipher (src/keystore/encrypt.go)
    esecret,     \* the private key bytes given to the last EncryptKey call
    epw,         \* the password given to it
    eout,        \* how that call ended: "none", "record" or "panic"
    ekey,        \* the EncryptedKey it returned
    stored,      \* that record as it is kept, possibly altered since
    dres,        \* the last DecryptKey call: its password, its record, its result
    \* ---- keystore.Manager and the backups (keystore.go, backup.go)
    kdir,        \* the keystore directory: the file at each path, or none
    kpc,         \* position of the running SaveKey: "idle" or "writing"
    ksave,       \* the name and record of the running SaveKey, and what
                 \* LoadKey answered for the name when it started
    kret,        \* what the last call of the manager returned
    kexp,        \* per name: the record a map would hold ("none": no
                 \* record, "unknown": a SaveKey of the name did not return)
    archive,     \* the backup file CreateBackup wrote
    rret         \* what the last RestoreBackup returned

monVars == <<statuses, callbacks, mu, pc, cancelled, res, args, cbList,
             cbIdx, invoked, monErr, got>>
batchVars == <<requests, wpc, wres, resultChan, chanClosed, wg, results, bpc,
               key>>
histVars == <<records, file, hpc, hrec, hdata, hret, hclock, hgot, hload, hok,
              hrecent>>
cipherVars == <<esecret, epw, eout, ekey, stored, dres>>
ksVars == <<kdir, kpc, ksave, kret, kexp, archive, rret>>
vaultVars == <<cipherVars, ksVars>>
vars == <<monVars, batchVars, histVars, vaultVars>>

\* ------------------------------------------------------------------------
\* tx.Monitor
\* ------------------------------------------------------------------------
\* types.ReceiptStatusFailed
ReceiptStatusFailed == 0
ReceiptStatusSuccessful == 1

\* fmt.Sprintf("%v", cb): a func value prints as the address of its code, so
\* two closures of one function literal print alike
Fmt(cb) == IF cb \in {"cbA1", "cbA2"} THEN "0xA"
           ELSE IF cb = "cbB" THEN "0xB" ELSE "0xR"

\* what client.TransactionReceipt(ctx, hash) can answer
Receipts == [kind : {"receipt"}, status : {ReceiptStatusFailed, ReceiptStatusSuccessful},
             blockNum : BlockNums, gasUsed : GasVals]
\* the errors of a query: the ledger does not know the hash yet, or the call
\* fails, which under a cancelled context shows as the context's error
QueryErrors(h) == [kind : {"err"},
                   text : {"not found",
                           IF cancelled[h] THEN "context canceled" ELSE "timeout"}]
Outcomes(h) == Receipts \cup QueryErrors(h)
AllOutcomes == Receipts \cup [kind : {"err"},
                              text : {"not found", "timeout", "context canceled"}]

\* the record MonitorTransaction registers; Timestamp (time.Now()) is counted
\* as the number of times the record has been stamped
NewStatus == [Status |-> "pending", BlockNum |-> 0, GasUsed |-> 0,
              Error |-> "", Timestamp |-> 1]

MonInit ==
    /\ statuses = [h \in Hashes |-> NoStatus]
    /\ callbacks = [h \in Hashes |-> <<>>]
    /\ mu = NoHolder
    /\ pc = [h \in Hashes |-> "none"]
    /\ cancelled = [h \in Hashes |-> FALSE]
    /\ res = [h \in Hashes |-> NoRes]
    /\ args = [h \in Hashes |-> NoArgs]
    /\ cbList = [h \in Hashes |-> <<>>]
    /\ cbIdx = [h \in Hashes |-> 0]
    /\ invoked = [h \in Hashes |-> <<>>]
    /\ monErr = "none"
    /\ got = [c \in Callers |-> NoGot]

\* the locals of a polling goroutine
taskVars == <<res, args, cbList, cbIdx>>

\* the goroutine of h returns: its locals are gone
TaskExit(h) ==
    /\ res' = [res EXCEPT ![h] = NoRes]
    /\ args' = [args EXCEPT ![h] = NoArgs]
    /\ cbList' = [cbList EXCEPT ![h] = <<>>]
    /\ cbIdx' = [cbIdx EXCEPT ![h] = 0]

\* MonitorTransaction without the `exists` guard: registers again
MonitorTransactionNoGuard(h) ==
    /\ mu = NoHolder
    /\ statuses' = [statuses EXCEPT ![h] = NewStatus]
    /\ pc' = [pc EXCEPT ![h] = "select"]
    /\ monErr' = "nil"
    /\ UNCHANGED <<callbacks, mu, cancelled, taskVars, invoked, got>>
    /\ UNCHANGED <<batchVars, histVars, vaultVars>>

\* Monitor.MonitorTransaction(ctx, hash)
MonitorTransaction(h) ==
    /\ mu = NoHolder
    /\ IF statuses[h] # NoStatus
       THEN /\ monErr' = "AlreadyMonitored"
            /\ UNCHANGED <<statuses, pc>>
       ELSE /\ statuses' = [statuses EXCEPT ![h] = NewStatus]
            /\ pc' = [pc EXCEPT ![h] = "select"]
            /\ monErr' = "nil"
    /\ UNCHANGED <<callbacks, mu, cancelled, taskVars, invoked, got>>
    /\ UNCHANGED <<batchVars, histVars, vaultVars>>

\* the caller cancels the context it gave to MonitorTransaction(hash) while
\* the polling task is in its loop, waiting in the select or for the answer
\* of a query (the task reads ctx nowhere else)
Cancel(h) ==
    /\ pc[h] \in {"select", "query"}
    /\ ~cancelled[h]
    /\ cancelled' = [cancelled EXCEPT ![h] = TRUE]
    /\ UNCHANGED <<statuses, callbacks, mu, pc, taskVars, invoked, monErr, got>>
    /\ UNCHANGED <<batchVars, histVars, vaultVars>>

\* select { case <-ctx.Done(): return }
SelectDone(h) ==
    /\ pc[h] = "select"
    /\ cancelled[h]
    /\ pc' = [pc EXCEPT ![h] = "exited"]
    /\ TaskExit(h)
    /\ UNCHANGED <<statuses, callbacks, mu, cancelled, invoked, monErr, got>>
    /\ UNCHANGED <<batchVars, histVars, vaultVars>>

\* select { case <-ticker.C: ... } up to the call of TransactionReceipt: the
\* ticker has delivered a tick (one every 5 s) and select takes it; when
\* ctx.Done() is ready too, Go picks either case
SelectTick(h) ==
    /\ pc[h] = "select"
    /\ pc' = [pc EXCEPT ![h] = "query"]
    /\ res' = [res EXCEPT ![h] = NoRes]
    /\ UNCHANGED <<statuses, callbacks, mu, cancelled, args, cbList, cbIdx,
                   invoked, monErr, got>>
    /\ UNCHANGED <<batchVars, histVars, vaultVars>>

\* NextArgs with every query error taken as a reason to stop
NextArgsNoRetry(o) ==
    IF o.kind = "err"
    THEN [status |-> "error", blockNum |-> 0, gasUsed |-> 0, errMsg |-> o.text]
    ELSE [status |-> IF o.status = ReceiptStatusFailed THEN "failed" ELSE "success",
          blockNum |-> o.blockNum, gasUsed |-> o.gasUsed, errMsg |-> ""]

\* NextArgs with every query error taken as a reason to poll again
NextArgsAllRetry(o) ==
    IF o.kind = "err"
    THEN NoArgs
    ELSE [status |-> IF o.status = ReceiptStatusFailed THEN "failed" ELSE "success",
          blockNum |-> o.blockNum, gasUsed |-> o.gasUsed, errMsg |-> ""]

\* the arguments monitorTransaction gives to updateStatus for a query
\* outcome, NoArgs when it polls again instead
NextArgs(o) ==
    IF o.kind = "err"
    THEN IF o.text = "not found"
         THEN NoArgs
         ELSE [status |-> "error", blockNum |-> 0, gasUsed |-> 0, errMsg |-> o.text]
    ELSE [status |-> IF o.status = ReceiptStatusFailed THEN "failed" ELSE "success",
          blockNum |-> o.blockNum, gasUsed |-> o.gasUsed, errMsg |-> ""]

\* TransactionReceipt returns and monitorTransaction decides
QueryReturn(h) ==
    /\ pc[h] = "query"
    /\ \E o \in Outcomes(h) :
         /\ res' = [res EXCEPT ![h] = o]
         /\ IF NextArgs(o) = NoArgs
            THEN /\ pc' = [pc EXCEPT ![h] = "select"]
                 /\ UNCHANGED args
            ELSE /\ args' = [args EXCEPT ![h] = NextArgs(o)]
                 /\ pc' = [pc EXCEPT ![h] = "updateStatus"]
    /\ UNCHANGED <<statuses, callbacks, mu, cancelled, cbList, cbIdx, invoked,
                   monErr, got>>
    /\ UNCHANGED <<batchVars, histVars, vaultVars>>

\* updateStatus: m.mu.Lock() and the lookup of m.statuses[hash]
UpdLock(h) ==
    /\ pc[h] = "updateStatus"
    /\ mu = NoHolder
    /\ mu' = h
    /\ pc' = [pc EXCEPT ![h] = IF statuses[h] # NoStatus THEN "setStatus" ELSE "unlock"]
    /\ UNCHANGED <<statuses, callbacks, cancelled, taskVars, invoked, monErr, got>>
    /\ UNCHANGED <<batchVars, histVars, vaultVars>>

\* txStatus.Status = status
UpdStatus(h) ==
    /\ pc[h] = "setStatus"
    /\ statuses' = [statuses EXCEPT ![h].Status = args[h].status]
    /\ pc' = [pc EXCEPT ![h] = "setBlockNum"]
    /\ UNCHANGED <<callbacks, mu, cancelled, taskVars, invoked, monErr, got>>
    /\ UNCHANGED <<batchVars, histVars, vaultVars>>

\* txStatus.BlockNum = blockNum
UpdBlockNum(h) ==
    /\ pc[h] = "setBlockNum"
    /\ statuses' = [statuses EXCEPT ![h].BlockNum = args[h].blockNum]
    /\ pc' = [pc EXCEPT ![h] = "setGasUsed"]
    /\ UNCHANGED <<callbacks, mu, cancelled, taskVars, invoked, monErr, got>>
    /\ UNCHANGED <<batchVars, histVars, vaultVars>>

\* txStatus.GasUsed = gasUsed
UpdGasUsed(h) ==
    /\ pc[h] = "setGasUsed"
    /\ statuses' = [statuses EXCEPT ![h].GasUsed = args[h].gasUsed]
    /\ pc' = [pc EXCEPT ![h] = "setError"]
    /\ UNCHANGED <<callbacks, mu, cancelled, taskVars, invoked, monErr, got>>
    /\ UNCHANGED <<batchVars, histVars, vaultVars>>

\* txStatus.Error = errMsg
UpdError(h) ==
    /\ pc[h] = "setError"
    /\ statuses' = [statuses EXCEPT ![h].Error = args[h].errMsg]
    /\ pc' = [pc EXCEPT ![h] = "setTimestamp"]
    /\ UNCHANGED <<callbacks, mu, cancelled, taskVars, invoked, monErr, got>>
    /\ UNCHANGED <<batchVars, histVars, vaultVars>>

\* a dispatch that leaves out the first registered callback
DispatchListSkipFirst(h) == IF callbacks[h] = <<>> THEN <<>> ELSE Tail(callbacks[h])

\* `if callbacks, exists := m.callbacks[hash]`: the slice the loop ranges over
DispatchList(h) == callbacks[h]

\* txStatus.Timestamp = time.Now(), then the range expression is evaluated
UpdTimestamp(h) ==
    /\ pc[h] = "setTimestamp"
    /\ statuses' = [statuses EXCEPT ![h].Timestamp = @ + 1]
    /\ cbList' = [cbList EXCEPT ![h] = DispatchList(h)]
    /\ cbIdx' = [cbIdx EXCEPT ![h] = 0]
    /\ pc' = [pc EXCEPT ![h] = "callbacks"]
    /\ UNCHANGED <<callbacks, mu, cancelled, res, args, invoked, monErr, got>>
    /\ UNCHANGED <<batchVars, histVars, vaultVars>>

\* a lock that the goroutine holding it could take again
CallbackCanLockReentrant(h) == mu \in {NoHolder, h}

\* m.mu.RLock() of a GetStatus called from a callback of the dispatch of h:
\* sync.RWMutex does not know its holder, the call waits for the writer
CallbackCanLock(h) == mu = NoHolder

\* one iteration of `for _, callback := range callbacks { callback(txStatus) }`;
\* the callback receives the pointer, so it sees the record as it is now; a
\* callback that calls the monitor returns once its call has got the lock
UpdCallback(h) ==
    /\ pc[h] = "callbacks"
    /\ cbIdx[h] < Len(cbList[h])
    /\ cbList[h][cbIdx[h] + 1] \in ReentrantCallbacks => CallbackCanLock(h)
    /\ invoked' = [invoked EXCEPT ![h] =
                      Append(@, [cb |-> cbList[h][cbIdx[h] + 1], rec |-> statuses[h]])]
    /\ cbIdx' = [cbIdx EXCEPT ![h] = @ + 1]
    /\ UNCHANGED <<statuses, callbacks, mu, pc, cancelled, res, args, cbList,
                   monErr, got>>
    /\ UNCHANGED <<batchVars, histVars, vaultVars>>

\* a polling loop that lacks the `return` after updateStatus
AfterUpdatePolls(h) == "select"

\* monitorTransaction: `return` after updateStatus
AfterUpdate(h) == "exited"

\* the deferred m.mu.Unlock(), updateStatus returns, monitorTransaction returns
UpdUnlock(h) ==
    /\ \/ pc[h] = "unlock"
       \/ pc[h] = "callbacks" /\ cbIdx[h] = Len(cbList[h])
    /\ mu' = NoHolder
    /\ pc' = [pc EXCEPT ![h] = AfterUpdate(h)]
    /\ TaskExit(h)
    /\ UNCHANGED <<statuses, callbacks, cancelled, invoked, monErr, got>>
    /\ UNCHANGED <<batchVars, histVars, vaultVars>>

\* Monitor.GetStatus(hash): returns the pointer stored in the map; snap is the
\* content of the record at the moment of the return
GetStatus(c, h) ==
    /\ mu = NoHolder
    /\ got' = [got EXCEPT ![c] =
                 IF statuses[h] # NoStatus
                 THEN [ref |-> h, err |-> "nil", snap |-> statuses[h]]
                 ELSE [ref |-> "nil", err |-> "NotMonitored", snap |-> NoStatus]]
    /\ UNCHANGED <<statuses, callbacks, mu, pc, cancelled, taskVars, invoked, monErr>>
    /\ UNCHANGED <<batchVars, histVars, vaultVars>>

RECURSIVE SumLen(_, _)
SumLen(f, S) == IF S = {} THEN 0
                ELSE LET x == CHOOSE y \in S : TRUE
                     IN Len(f[x]) + SumLen(f, S \ {x})

\* number of registrations held in m.callbacks
Registrations == SumLen(callbacks, Hashes)

\* Monitor.AddCallback(hash, callback)
AddCallback(h, cb) ==
    /\ mu = NoHolder
    /\ Registrations < MaxRegistrations
    /\ callbacks' = [callbacks EXCEPT ![h] = Append(@, cb)]
    /\ UNCHANGED <<statuses, mu, pc, cancelled, taskVars, invoked, monErr, got>>
    /\ UNCHANGED <<batchVars, histVars, vaultVars>>

\* a removal that keeps only what precedes the i-th element
RemoveAtTruncates(s, i) == SubSeq(s, 1, i - 1)

\* s without its i-th element: append(callbacks[:i], callbacks[i+1:]...)
RemoveAt(s, i) == SubSeq(s, 1, i - 1) \o SubSeq(s, i + 1, Len(s))

\* RemoveCallback without m.mu.Lock(): it runs whoever holds the lock
RemoveCallbackNoLock(h, cb) ==
    /\ LET match == {i \in 1..Len(callbacks[h]) : Fmt(callbacks[h][i]) = Fmt(cb)}
       IN IF match = {}
          THEN UNCHANGED callbacks
          ELSE LET first == CHOOSE i \in match : \A j \in match : i <= j
               IN callbacks' = [callbacks EXCEPT ![h] = RemoveAt(@, first)]
    /\ UNCHANGED <<statuses, mu, pc, cancelled, taskVars, invoked, monErr, got>>
    /\ UNCHANGED <<batchVars, histVars, vaultVars>>

\* Monitor.RemoveCallback(hash, callback)
RemoveCallback(h, cb) ==
    /\ mu = NoHolder
    /\ LET match == {i \in 1..Len(callbacks[h]) : Fmt(callbacks[h][i]) = Fmt(cb)}
       IN IF match = {}
          THEN UNCHANGED callbacks
          ELSE LET first == CHOOSE i \in match : \A j \in match : i <= j
               IN callbacks' = [callbacks EXCEPT ![h] = RemoveAt(@, first)]
    /\ UNCHANGED <<statuses, mu, pc, cancelled, taskVars, invoked, monErr, got>>
    /\ UNCHANGED <<batchVars, histVars, vaultVars>>

MonNext ==
    \/ \E h \in Hashes : MonitorTransaction(h)
    \/ \E h \in Hashes : Cancel(h)
    \/ \E h \in Hashes : SelectDone(h)
    \/ \E h \in Hashes : SelectTick(h)
    \/ \E h \in Hashes : QueryReturn(h)
    \/ \E h \in Hashes : UpdLock(h)
    \/ \E h \in Hashes : UpdStatus(h)
    \/ \E h \in Hashes : UpdBlockNum(h)
    \/ \E h \in Hashes : UpdGasUsed(h)
    \/ \E h \in Hashes : UpdError(h)
    \/ \E h \in Hashes : UpdTimestamp(h)
    \/ \E h \in Hashes : UpdCallback(h)
    \/ \E h \in Hashes : UpdUnlock(h)
    \/ \E h \in Hashes, cb \in MonCallbacks : AddCallback(h, cb)
    \/ \E h \in Hashes, cb \in MonCallbacks : RemoveCallback(h, cb)

\* what the caller does with the pointer GetStatus returned: it writes a
\* field of the record, without the monitor's lock
CallerWrite(c) ==
    /\ got[c].ref \in Hashes
    /\ statuses[got[c].ref].Error # "edited by caller"
    /\ statuses' = [statuses EXCEPT ![got[c].ref].Error = "edited by caller"]
    /\ UNCHANGED <<callbacks, mu, pc, cancelled, taskVars, invoked, monErr, got>>
    /\ UNCHANGED <<batchVars, histVars, vaultVars>>

\* the monitor with callers that read status records and use what they get
ReadNext ==
    \/ \E h \in Hashes : MonitorTransaction(h)
    \/ \E h \in Hashes : Cancel(h)
    \/ \E h \in Hashes : SelectDone(h)
    \/ \E h \in Hashes : SelectTick(h)
    \/ \E h \in Hashes : QueryReturn(h)
    \/ \E h \in Hashes : UpdLock(h)
    \/ \E h \in Hashes : UpdStatus(h)
    \/ \E h \in Hashes : UpdBlockNum(h)
    \/ \E h \in Hashes : UpdGasUsed(h)
    \/ \E h \in Hashes : UpdError(h)
    \/ \E h \in Hashes : UpdTimestamp(h)
    \/ \E h \in Hashes : UpdUnlock(h)
    \/ \E c \in Callers, h \in Hashes : GetStatus(c, h)
    \/ \E c \in Callers : CallerWrite(c)

\* ------------------------------------------------------------------------
\* core.BatchSigner
\* ------------------------------------------------------------------------
\* a *Transaction to sign: To is an address or nil, Nonce stands for its
\* content, prov says whether the signing provider (types.SignTx with the
\* wallet's key) fails on it
Requests ==
    [to : {"addr"}, nonce : {1, 2}, prov : {"ok"}]
    \cup [to : {"addr"}, nonce : {1}, prov : {"err"}]
    \cup [to : {"nil"}, nonce : {1}, prov : {"ok"}]

BatchInputs == UNION {[1..n -> Requests] : n \in 0..MaxBatch}

\* fmt.Sprintf("0x%x", rawTx): the hex text of the signed transaction
Sig(r) == <<"0x", r.nonce>>

\* the zero value of BatchSignResult
ZeroResult == [TransactionID |-> "", Signature |-> <<>>, Error |-> ""]

\* fmt.Sprintf("tx_%d", index), index counted from 0
TxID(i) == <<"tx_", i - 1>>

\* SignTransaction(tx, key): *tx.To is read before anything else, a nil To
\* is a nil pointer dereference; then types.SignTx may fail
SignTransaction(r) ==
    IF r.to = "nil"
    THEN [panic |-> TRUE, sig |-> <<>>, err |-> ""]
    ELSE IF r.prov = "err"
         THEN [panic |-> FALSE, sig |-> <<>>, err |-> "failed to sign transaction"]
         ELSE [panic |-> FALSE, sig |-> Sig(r), err |-> ""]

\* a worker that keeps the prefix of the signature text of a failed signing
WorkerResultPartial(i, out) ==
    [TransactionID |-> TxID(i),
     Signature |-> IF out.err # "" THEN <<"0x">> ELSE out.sig,
     Error |-> out.err]

\* the result a signing goroutine builds from the return of SignTransaction
WorkerResult(i, out) ==
    IF out.err # ""
    THEN [TransactionID |-> TxID(i), Signature |-> <<>>, Error |-> out.err]
    ELSE [TransactionID |-> TxID(i), Signature |-> out.sig, Error |-> ""]

BatchInit ==
    /\ requests = <<>>
    /\ wpc = <<>>
    /\ wres = <<>>
    /\ resultChan = <<>>
    /\ chanClosed = FALSE
    /\ wg = 0
    /\ results = <<>>
    /\ bpc = "idle"
    /\ key = "secret"

\* SignBatch(transactions) up to the start of the collecting loop: results
\* and resultChan are made, one goroutine per transaction is started after
\* wg.Add(1), the closing goroutine is started
BatchStart(reqs) ==
    /\ bpc = "idle"
    /\ requests' = reqs
    /\ results' = [i \in 1..Len(reqs) |-> ZeroResult]
    /\ wpc' = [i \in 1..Len(reqs) |-> "start"]
    /\ wres' = [i \in 1..Len(reqs) |-> ZeroResult]
    /\ wg' = Len(reqs)
    /\ bpc' = "collect"
    /\ UNCHANGED <<resultChan, chanClosed, key>>
    /\ UNCHANGED <<monVars, histVars, vaultVars>>

\* goroutine i: builds its result and calls SignTransaction; a panic in a
\* goroutine ends the process
WorkerSign(i) ==
    /\ bpc = "collect"
    /\ wpc[i] = "start"
    /\ LET out == SignTransaction(requests[i])
       IN IF out.panic
          THEN /\ bpc' = "crashed"
               /\ UNCHANGED <<wpc, wres>>
          ELSE /\ wres' = [wres EXCEPT ![i] = WorkerResult(i, out)]
               /\ wpc' = [wpc EXCEPT ![i] = "signed"]
               /\ UNCHANGED bpc
    /\ UNCHANGED <<requests, resultChan, chanClosed, wg, results, key>>
    /\ UNCHANGED <<monVars, histVars, vaultVars>>

\* goroutine i: resultChan <- {index, result}; the buffer holds
\* len(transactions) values, so the send never blocks
WorkerSend(i) ==
    /\ bpc = "collect"
    /\ wpc[i] = "signed"
    /\ resultChan' = Append(resultChan, [index |-> i, result |-> wres[i]])
    /\ wpc' = [wpc EXCEPT ![i] = "sent"]
    /\ UNCHANGED <<requests, wres, chanClosed, wg, results, bpc, key>>
    /\ UNCHANGED <<monVars, histVars, vaultVars>>

\* goroutine i: the deferred wg.Done()
WorkerDone(i) ==
    /\ bpc = "collect"
    /\ wpc[i] = "sent"
    /\ wg' = wg - 1
    /\ wpc' = [wpc EXCEPT ![i] = "done"]
    /\ UNCHANGED <<requests, wres, resultChan, chanClosed, results, bpc, key>>
    /\ UNCHANGED <<monVars, histVars, vaultVars>>

\* the closing goroutine: wg.Wait() returns, close(resultChan)
CloseChan ==
    /\ bpc = "collect"
    /\ wg = 0
    /\ ~chanClosed
    /\ chanClosed' = TRUE
    /\ UNCHANGED <<requests, wpc, wres, resultChan, wg, results, bpc, key>>
    /\ UNCHANGED <<monVars, histVars, vaultVars>>

\* a collector that files the results in the order they arrive
StoreByArrival(rs, m) ==
    LET free == {i \in 1..Len(rs) : rs[i] = ZeroResult}
    IN IF free = {} THEN rs
       ELSE [rs EXCEPT ![CHOOSE i \in free : \A j \in free : i <= j] = m.result]

\* results[result.index] = result.result
Store(rs, m) == [rs EXCEPT ![m.index] = m.result]

\* one iteration of `for result := range resultChan`
Collect ==
    /\ bpc = "collect"
    /\ resultChan # <<>>
    /\ results' = Store(results, Head(resultChan))
    /\ resultChan' = Tail(resultChan)
    /\ UNCHANGED <<requests, wpc, wres, chanClosed, wg, bpc, key>>
    /\ UNCHANGED <<monVars, histVars, vaultVars>>

\* the range loop ends on the closed, drained channel; SignBatch returns
BatchReturn ==
    /\ bpc = "collect"
    /\ resultChan = <<>>
    /\ chanClosed
    /\ bpc' = "returned"
    /\ UNCHANGED <<requests, wpc, wres, resultChan, chanClosed, wg, results, key>>
    /\ UNCHANGED <<monVars, histVars, vaultVars>>

BatchNext ==
    \/ \E reqs \in BatchInputs : BatchStart(reqs)
    \/ \E i \in DOMAIN wpc : WorkerSign(i)
    \/ \E i \in DOMAIN wpc : WorkerSend(i)
    \/ \E i \in DOMAIN wpc : WorkerDone(i)
    \/ CloseChan
    \/ Collect
    \/ BatchReturn

\* ------------------------------------------------------------------------
\* tx.History
\* ------------------------------------------------------------------------
NoRecord == [Status |-> "absent"]
NoData == <<"no data">>
NoHGot == [hash |-> "none", err |-> "none", rec |-> NoRecord]
NoRecent == [called |-> FALSE, limit |-> 0, recs |-> <<>>]

\* the hashes in the order of their hex text, the order in which
\* json.MarshalIndent writes the keys of a map
HashOrder == <<"h1", "h2">>

\* the transaction the ledger holds for a hash
TxFrom(h) == IF h = "h1" THEN "0xA1" ELSE "0xB2"
TxTo(h) == IF h = "h1" THEN "0xB2" ELSE "0xC3"

\* what the two RPC calls of AddTransaction can answer: an error of
\* TransactionByHash, a pending transaction, an error of TransactionReceipt,
\* or a receipt
LedgerAnswers ==
    [kind : {"txErr", "pending", "receiptErr"}]
    \cup [kind : {"receipt"}, status : {ReceiptStatusFailed, ReceiptStatusSuccessful},
          blockNum : BlockNums, gasUsed : GasVals]

\* the record AddTransaction builds; Timestamp is time.Now()
BuildRecord(h, a, t) ==
    IF a.kind = "receipt"
    THEN [Hash |-> h, From |-> TxFrom(h), To |-> TxTo(h), GasUsed |-> a.gasUsed,
          BlockNumber |-> a.blockNum,
          Status |-> IF a.status = ReceiptStatusFailed THEN "failed" ELSE "success",
          Timestamp |-> t]
    ELSE [Hash |-> h, From |-> TxFrom(h), To |-> TxTo(h), GasUsed |-> 0,
          BlockNumber |-> 0, Status |-> "pending", Timestamp |-> t]

RECURSIVE Entries(_, _)
\* the entries of the JSON object, keys from position i of HashOrder on
Entries(recs, i) ==
    IF i > Len(HashOrder) THEN <<>>
    ELSE (IF recs[HashOrder[i]] = NoRecord THEN <<>> ELSE <<recs[HashOrder[i]]>>)
         \o Entries(recs, i + 1)

\* the braces of a JSON object, as tokens
LBrace == [Hash |-> "{"]
RBrace == [Hash |-> "}"]

\* json.MarshalIndent(h.records, "", "  "): the document as a sequence of
\* tokens, an opening brace, one entry per record, a closing brace
Marshal(recs) == <<LBrace>> \o Entries(recs, 1) \o <<RBrace>>

\* json.Unmarshal accepts the token sequence d as a map of records
WellFormed(d) ==
    /\ Len(d) >= 2
    /\ d[1] = LBrace
    /\ d[Len(d)] = RBrace
    /\ \A i \in 2..(Len(d) - 1) : d[i].Hash \in Hashes

\* the map json.Unmarshal gives for a well-formed document; of entries with
\* the same key the last one stays
Unmarshal(d) ==
    [h \in Hashes |->
       LET at == {i \in 2..(Len(d) - 1) : d[i].Hash = h}
       IN IF at = {} THEN NoRecord
          ELSE d[CHOOSE i \in at : \A k \in at : k <= i]]

\* a write of data at offset 0 of a file holding old
WriteAt0(data, old) == data \o SubSeq(old, Len(data) + 1, Len(old))

HistInit ==
    /\ records = [h \in Hashes |-> NoRecord]
    /\ file = [exists |-> FALSE, data |-> <<>>]
    /\ hpc = [h \in Hashes |-> "idle"]
    /\ hrec = [h \in Hashes |-> NoRecord]
    /\ hdata = [h \in Hashes |-> NoData]
    /\ hret = [h \in Hashes |-> "none"]
    /\ hclock = 0
    /\ hgot = NoHGot
    /\ hload = "nil"
    /\ hok = [h \in Hashes |-> NoRecord]
    /\ hrecent = NoRecent

\* AddTransaction(ctx, hash) up to the built record: the RPC calls, either
\* of which may fail and end the call
HistFetch(h) ==
    /\ hload = "nil"
    /\ hpc[h] \in {"idle", "returned"}
    /\ hclock < MaxAppends
    /\ hclock' = hclock + 1
    /\ \E a \in LedgerAnswers :
         IF a.kind \in {"txErr", "receiptErr"}
         THEN /\ hret' = [hret EXCEPT ![h] = "failed to get transaction"]
              /\ hpc' = [hpc EXCEPT ![h] = "returned"]
              /\ hrec' = [hrec EXCEPT ![h] = NoRecord]
         ELSE /\ hrec' = [hrec EXCEPT ![h] = BuildRecord(h, a, hclock')]
              /\ hpc' = [hpc EXCEPT ![h] = "insert"]
              /\ hret' = [hret EXCEPT ![h] = "none"]
    /\ hdata' = [hdata EXCEPT ![h] = NoData]
    /\ UNCHANGED <<records, file, hgot, hload, hok, hrecent>>
    /\ UNCHANGED <<monVars, batchVars, vaultVars>>

\* h.mu.Lock(); h.records[hash] = record; h.mu.Unlock()
HistInsert(h) ==
    /\ hpc[h] = "insert"
    /\ records' = [records EXCEPT ![h] = hrec[h]]
    /\ hpc' = [hpc EXCEPT ![h] = "marshal"]
    /\ UNCHANGED <<file, hrec, hdata, hret, hclock, hgot, hload, hok, hrecent>>
    /\ UNCHANGED <<monVars, batchVars, vaultVars>>

\* save: h.mu.RLock(); data := json.MarshalIndent(h.records); h.mu.RUnlock()
HistMarshal(h) ==
    /\ hpc[h] = "marshal"
    /\ hdata' = [hdata EXCEPT ![h] = Marshal(records)]
    /\ hpc' = [hpc EXCEPT ![h] = "open"]
    /\ UNCHANGED <<records, file, hrec, hret, hclock, hgot, hload, hok, hrecent>>
    /\ UNCHANGED <<monVars, batchVars, vaultVars>>

\* save: os.MkdirAll and the open of os.WriteFile (O_WRONLY|O_CREATE|O_TRUNC)
\* succeed: the file exists and is empty
HistOpen(h) ==
    /\ hpc[h] = "open"
    /\ file' = [exists |-> TRUE, data |-> <<>>]
    /\ hpc' = [hpc EXCEPT ![h] = "write"]
    /\ UNCHANGED <<records, hrec, hdata, hret, hclock, hgot, hload, hok, hrecent>>
    /\ UNCHANGED <<monVars, batchVars, vaultVars>>

\* save: os.MkdirAll or the open fails; the error is returned
HistOpenFail(h) ==
    /\ hpc[h] = "open"
    /\ hret' = [hret EXCEPT ![h] = "IOError"]
    /\ hpc' = [hpc EXCEPT ![h] = "returned"]
    /\ UNCHANGED <<records, file, hrec, hdata, hclock, hgot, hload, hok, hrecent>>
    /\ UNCHANGED <<monVars, batchVars, vaultVars>>

\* save: os.WriteFile writes data at the start of the file it opened and
\* AddTransaction returns nil
HistWrite(h) ==
    /\ hpc[h] = "write"
    /\ file' = [exists |-> TRUE, data |-> WriteAt0(hdata[h], file.data)]
    /\ hret' = [hret EXCEPT ![h] = "nil"]
    /\ hpc' = [hpc EXCEPT ![h] = "returned"]
    /\ hok' = [hok EXCEPT ![h] = hrec[h]]
    /\ UNCHANGED <<records, hrec, hdata, hclock, hgot, hload, hrecent>>
    /\ UNCHANGED <<monVars, batchVars, vaultVars>>

\* save: the write fails after n tokens of data; the error is returned
HistWriteFail(h) ==
    /\ hpc[h] = "write"
    /\ \E n \in 0..(Len(hdata[h]) - 1) :
         file' = [exists |-> TRUE,
                  data |-> WriteAt0(SubSeq(hdata[h], 1, n), file.data)]
    /\ hret' = [hret EXCEPT ![h] = "IOError"]
    /\ hpc' = [hpc EXCEPT ![h] = "returned"]
    /\ UNCHANGED <<records, hrec, hdata, hclock, hgot, hload, hok, hrecent>>
    /\ UNCHANGED <<monVars, batchVars, vaultVars>>

\* History.GetTransaction(hash)
HistGet(h) ==
    /\ hload = "nil"
    /\ hgot' = IF records[h] # NoRecord
               THEN [hash |-> h, err |-> "nil", rec |-> records[h]]
               ELSE [hash |-> h, err |-> "transaction not found in history",
                     rec |-> NoRecord]
    /\ UNCHANGED <<records, file, hpc, hrec, hdata, hret, hclock, hload, hok, hrecent>>
    /\ UNCHANGED <<monVars, batchVars, vaultVars>>

\* the records of a map
RecordsOf(recs) == {recs[h] : h \in Hashes} \ {NoRecord}

\* History.GetTransactionsByAddress(address): the slice follows the
\* iteration order of the map, which is not fixed, so it is taken as a set
GetTransactionsByAddress(recs, address) ==
    {r \in RecordsOf(recs) : r.From = address \/ r.To = address}

RECURSIVE SortByTimestamp(_)
\* sort.Slice with records[i].Timestamp.After(records[j].Timestamp)
SortByTimestamp(S) ==
    IF S = {} THEN <<>>
    ELSE LET latest == CHOOSE r \in S : \A q \in S : q.Timestamp <= r.Timestamp
         IN <<latest>> \o SortByTimestamp(S \ {latest})

\* a GetRecentTransactions that lacks `records = records[:limit]`
GetRecentTransactionsNoLimit(recs, limit) == SortByTimestamp(RecordsOf(recs))

\* History.GetRecentTransactions(limit)
GetRecentTransactions(recs, limit) ==
    LET sorted == SortByTimestamp(RecordsOf(recs))
    IN IF limit > 0 /\ limit < Len(sorted) THEN SubSeq(sorted, 1, limit) ELSE sorted

\* the limits the callers pass: no limit, and one record
RecentLimits == 0..1

\* a caller calls History.GetRecentTransactions(limit)
HistRecent(limit) ==
    /\ hload = "nil"
    /\ hrecent' = [called |-> TRUE, limit |-> limit,
                   recs |-> GetRecentTransactions(records, limit)]
    /\ UNCHANGED <<records, file, hpc, hrec, hdata, hret, hclock, hgot, hload, hok>>
    /\ UNCHANGED <<monVars, batchVars, vaultVars>>

\* History.load(): the error it returns and the map it leaves in h.records
Load(f) ==
    IF ~f.exists
    THEN [err |-> "nil", recs |-> [h \in Hashes |-> NoRecord]]
    ELSE IF WellFormed(f.data)
         THEN [err |-> "nil", recs |-> Unmarshal(f.data)]
         ELSE [err |-> "failed to parse history", recs |-> [h \in Hashes |-> NoRecord]]

\* the process ends (it exits or crashes, at any point of the calls in
\* progress) and is started again: NewHistory makes an empty map and calls
\* load(); when load() fails NewHistory returns no store
HistRestart ==
    /\ records' = Load(file).recs
    /\ hload' = Load(file).err
    /\ hpc' = [h \in Hashes |-> "idle"]
    /\ hrec' = [h \in Hashes |-> NoRecord]
    /\ hdata' = [h \in Hashes |-> NoData]
    /\ hret' = [h \in Hashes |-> "none"]
    /\ hgot' = NoHGot
    /\ UNCHANGED <<file, hclock, hok, hrecent>>
    /\ UNCHANGED <<monVars, batchVars, vaultVars>>

HistNext ==
    \/ \E h \in Hashes : HistFetch(h)
    \/ \E h \in Hashes : HistInsert(h)
    \/ \E h \in Hashes : HistMarshal(h)
    \/ \E h \in Hashes : HistOpen(h)
    \/ \E h \in Hashes : HistOpenFail(h)
    \/ \E h \in Hashes : HistWrite(h)
    \/ \E h \in Hashes : HistWriteFail(h)
    \/ HistRestart

\* the history store whose appends succeed, with callers that ask for the
\* recent records
RecentNext ==
    \/ \E h \in Hashes : HistFetch(h)
    \/ \E h \in Hashes : HistInsert(h)
    \/ \E h \in Hashes : HistMarshal(h)
    \/ \E h \in Hashes : HistOpen(h)
    \/ \E h \in Hashes : HistWrite(h)
    \/ \E limit \in RecentLimits : HistRecent(limit)

\* the history store with callers that also read it
StoreNext ==
    \/ \E h \in Hashes : HistFetch(h)
    \/ \E h \in Hashes : HistInsert(h)
    \/ \E h \in Hashes : HistMarshal(h)
    \/ \E h \in Hashes : HistOpen(h)
    \/ \E h \in Hashes : HistOpenFail(h)
    \/ \E h \in Hashes : HistWrite(h)
    \/ \E h \in Hashes : HistWriteFail(h)
    \/ \E h \in Hashes : HistGet(h)
    \/ HistRestart

\* ------------------------------------------------------------------------
\* keystore: EncryptKey and DecryptKey (src/keystore/encrypt.go)
\* ------------------------------------------------------------------------
\* Byte strings are sequences of numbers 0..255, texts are sequences of
\* characters. The sizes are scaled down: a private key has KeyLen bytes (32
\* in the code), a digest DigestLen bytes (32), a salt and a nonce one byte
\* (32 and 12), the GCM tag TagSize bytes (16).
KeyLen == 2
DigestLen == 2
TagSize == 1

HexDigits == <<"0", "1", "2", "3", "4", "5", "6", "7", "8", "9",
               "a", "b", "c", "d", "e", "f">>

\* the two characters %x writes for one byte
HexOf(b) == <<HexDigits[(b \div 16) + 1], HexDigits[(b % 16) + 1]>>

RECURSIVE Hex(_)
\* %x of a byte string
Hex(bs) == IF bs = <<>> THEN <<>> ELSE HexOf(Head(bs)) \o Hex(Tail(bs))

\* fmt.Sprintf("0x%x", bs)
Sprintf0x(bs) == <<"0", "x">> \o Hex(bs)

\* text[2:]: the first two characters go, whatever they are
Strip2(text) == SubSeq(text, 3, Len(text))

DigitVal(ch) == CHOOSE n \in 0..15 : HexDigits[n + 1] = ch

\* hex.DecodeString(text): an odd length and a character that is no hex
\* digit are errors
DecodeString(text) ==
    IF Len(text) % 2 = 1 \/ \E i \in 1..Len(text) : text[i] \notin {HexDigits[n] : n \in 1..16}
    THEN [err |-> TRUE, bytes |-> <<>>]
    ELSE [err |-> FALSE,
          bytes |-> [i \in 1..(Len(text) \div 2) |->
                       16 * DigitVal(text[2 * i - 1]) + DigitVal(text[2 * i])]]

RECURSIVE Sum(_)
Sum(bs) == IF bs = <<>> THEN 0 ELSE Head(bs) + Sum(Tail(bs))

RECURSIVE Weighted(_, _)
Weighted(bs, i) == IF bs = <<>> THEN 0 ELSE i * Head(bs) + Weighted(Tail(bs), i + 1)

\* sha256.Sum256(m): a digest that differs on the messages of the model
Sha256(m) == <<Weighted(m, 1) % 256, (3 * Weighted(m, 1) + 1) % 256>>

\* crypto.Keccak256(m)
Keccak256(m) == <<(Sum(m) + 1) % 256, (5 * Weighted(m, 1) + 2) % 256>>

\* deriveKey(password, salt): one SHA-256 of the password followed by the salt
deriveKey(password, salt) == Sha256(password \o salt)

\* the counter-mode key stream and the tag of AES-GCM under a key and a nonce:
\* the tag differs when the key differs or when one byte of the body does
KeyStream(k, iv) == (k[1] + k[2] + iv[1]) % 256
GcmTag(k, iv, body) == (7 * k[1] + 3 * iv[1] + Sum(body)) % 256

\* aesGCM.Seal(nil, iv, plaintext, nil): the encrypted bytes, then the tag
Seal(k, iv, plaintext) ==
    LET body == [i \in 1..Len(plaintext) |-> (plaintext[i] + KeyStream(k, iv)) % 256]
    IN body \o <<GcmTag(k, iv, body)>>

\* aesGCM.Open(nil, iv, ciphertext, nil): the plaintext when the tag is the
\* one of the body under this key and nonce, an error and nothing otherwise
Open(k, iv, ciphertext) ==
    IF Len(ciphertext) < TagSize
    THEN [err |-> TRUE, plain |-> <<>>]
    ELSE LET body == SubSeq(ciphertext, 1, Len(ciphertext) - TagSize)
         IN IF ciphertext[Len(ciphertext)] # GcmTag(k, iv, body)
            THEN [err |-> TRUE, plain |-> <<>>]
            ELSE [err |-> FALSE,
                  plain |-> [i \in 1..Len(body) |->
                               (body[i] + 256 - KeyStream(k, iv)) % 256]]

\* crypto.ToECDSA(d) succeeds: d has the length of a scalar, is not zero and
\* is below the group order (which a string of 0xff bytes is not)
ValidScalar(d) ==
    /\ Len(d) = KeyLen
    /\ \E i \in 1..Len(d) : d[i] # 0
    /\ \E i \in 1..Len(d) : d[i] # 255

\* the values of the callers
Passwords == {<<97>>, <<98>>}
Salts == {<<1>>, <<2>>}
Nonces == {<<3>>, <<4>>}
Secrets == {<<1, 1>>, <<18, 171>>, <<0, 0>>, <<7>>}
KdfNames == {"pbkdf2", "scrypt"}
KdfCounts == {1, 262144}

\* EncryptKey(privateKey, password) with the salt and the nonce it drew
EncryptKey(privateKey, password, salt, iv) ==
    LET derivedKey == deriveKey(password, salt)
        ciphertext == Seal(derivedKey, iv, privateKey)
        mac == Keccak256(SubSeq(derivedKey, (DigestLen \div 2) + 1, DigestLen)
                         \o ciphertext)
    IN [ciphertext |-> Sprintf0x(ciphertext), iv |-> Sprintf0x(iv),
        kdf |-> "pbkdf2", c |-> 262144, dklen |-> 32,
        salt |-> Sprintf0x(salt), mac |-> Sprintf0x(mac)]

NoKey == [ciphertext |-> <<>>, iv |-> <<>>, kdf |-> "", c |-> 0, dklen |-> 0,
          salt |-> <<>>, mac |-> <<>>]
NoDecrypt == [called |-> FALSE, pw |-> <<>>, key |-> NoKey,
              err |-> "none", plain |-> <<>>, derived |-> <<>>]

\* DecryptKey(key, password), encKey being its argument key: the error, the private key returned, and the
\* key given to aes.NewCipher; the fields kdf, c, dklen and mac are not read
DecryptKey(encKey, password) ==
    LET salt == DecodeString(Strip2(encKey.salt))
        iv == DecodeString(Strip2(encKey.iv))
        ciphertext == DecodeString(Strip2(encKey.ciphertext))
        derivedKey == deriveKey(password, salt.bytes)
        opened == Open(derivedKey, iv.bytes, ciphertext.bytes)
    IN IF salt.err
       THEN [err |-> "failed to decode salt", plain |-> <<>>, derived |-> <<>>]
       ELSE IF iv.err
       THEN [err |-> "failed to decode IV", plain |-> <<>>, derived |-> derivedKey]
       ELSE IF ciphertext.err
       THEN [err |-> "failed to decode ciphertext", plain |-> <<>>,
             derived |-> derivedKey]
       ELSE IF opened.err
       THEN [err |-> "failed to decrypt key", plain |-> <<>>, derived |-> derivedKey]
       ELSE IF ~ValidScalar(opened.plain)
       THEN [err |-> "failed to convert to private key", plain |-> <<>>,
             derived |-> derivedKey]
       ELSE [err |-> "nil", plain |-> opened.plain, derived |-> derivedKey]

CipherInit ==
    /\ esecret = <<>>
    /\ epw = <<>>
    /\ eout = "none"
    /\ ekey = NoKey
    /\ stored = NoKey
    /\ dres = NoDecrypt

\* a caller encrypts a secret, once, and keeps the record. For bytes that are no
\* scalar the expression crypto.ToECDSA(privateKey).PublicKey of line 77 has
\* no key to read the address from: the call panics (EncryptPanics) or goes
\* on with whatever address it reads
Encrypt(secret, password, salt, iv) ==
    /\ eout = "none"
    /\ esecret' = secret
    /\ epw' = password
    /\ eout' = "record"
    /\ ekey' = EncryptKey(secret, password, salt, iv)
    /\ stored' = EncryptKey(secret, password, salt, iv)
    /\ dres' = NoDecrypt
    /\ UNCHANGED <<monVars, batchVars, histVars, ksVars>>

EncryptPanics(secret, password) ==
    /\ eout = "none"
    /\ ~ValidScalar(secret)
    /\ esecret' = secret
    /\ epw' = password
    /\ eout' = "panic"
    /\ ekey' = NoKey
    /\ stored' = NoKey
    /\ dres' = NoDecrypt
    /\ UNCHANGED <<monVars, batchVars, histVars, ksVars>>

\* the byte b with one of its bits flipped
Flip(b, bit) == IF (b \div bit) % 2 = 0 THEN b + bit ELSE b - bit
FlippedBits == {1, 128}

\* text, a 0x-prefixed hex text, with one bit of its i-th byte flipped
FlipIn(text, i, bit) ==
    LET bs == DecodeString(Strip2(text)).bytes
    IN Sprintf0x([bs EXCEPT ![i] = Flip(@, bit)])

\* somebody flips a bit of the ciphertext field of the kept record: of the
\* encrypted bytes or of the tag that follows them
AlterCiphertext(i, bit) ==
    /\ eout = "record"
    /\ stored.ciphertext = ekey.ciphertext
    /\ i <= Len(DecodeString(Strip2(stored.ciphertext)).bytes)
    /\ stored' = [stored EXCEPT !.ciphertext = FlipIn(@, i, bit)]
    /\ UNCHANGED <<esecret, epw, eout, ekey, dres>>
    /\ UNCHANGED <<monVars, batchVars, histVars, ksVars>>

\* somebody flips a bit of the mac field of the kept record
AlterMac(i, bit) ==
    /\ eout = "record"
    /\ stored.mac = ekey.mac
    /\ stored' = [stored EXCEPT !.mac = FlipIn(@, i, bit)]
    /\ UNCHANGED <<esecret, epw, eout, ekey, dres>>
    /\ UNCHANGED <<monVars, batchVars, histVars, ksVars>>

\* the kept record declares another key-derivation function or another
\* iteration count
Redeclare(kdf, c) ==
    /\ eout = "record"
    /\ <<kdf, c>> # <<stored.kdf, stored.c>>
    /\ stored' = [stored EXCEPT !.kdf = kdf, !.c = c]
    /\ UNCHANGED <<esecret, epw, eout, ekey, dres>>
    /\ UNCHANGED <<monVars, batchVars, histVars, ksVars>>

\* a caller decrypts the kept record
Decrypt(password) ==
    /\ eout = "record"
    /\ LET out == DecryptKey(stored, password)
       IN dres' = [called |-> TRUE, pw |-> password, key |-> stored,
                   err |-> out.err, plain |-> out.plain, derived |-> out.derived]
    /\ UNCHANGED <<esecret, epw, eout, ekey, stored>>
    /\ UNCHANGED <<monVars, batchVars, histVars, ksVars>>

CipherNext ==
    \/ \E secret \in Secrets, password \in Passwords, salt \in Salts, iv \in Nonces :
          Encrypt(secret, password, salt, iv)
    \/ \E secret \in Secrets, password \in Passwords : EncryptPanics(secret, password)
    \/ \E i \in 1..(KeyLen + TagSize), bit \in FlippedBits : AlterCiphertext(i, bit)
    \/ \E i \in 1..DigestLen, bit \in FlippedBits : AlterMac(i, bit)
    \/ \E kdf \in KdfNames, c \in KdfCounts : Redeclare(kdf, c)
    \/ \E password \in Passwords : Decrypt(password)

\* ------------------------------------------------------------------------
\* keystore.Manager (src/keystore/keystore.go) and the backups
\* (src/keystore/backup.go)
\* ------------------------------------------------------------------------
Names == {"a", "backup"}
Records == {"r1", "r2"}
\* the password the backups are made with, and another one
BackupPassword == "bp1"
BackupPasswords == {BackupPassword, "bp2"}
\* the umask of the process that runs an operation: 022 or 077
Umasks == {"022", "077"}

\* filepath.Join(dir, fmt.Sprintf("%s.json", name)), within dir
FilePath(name) == <<name, ".json">>
\* the path of the config file in the temporary directory of a backup
ConfigPath == <<"backup", ".json">>
\* the paths of the model
FilePaths == {FilePath(name) : name \in Names} \cup {ConfigPath}

\* number of pieces a JSON document is written in: "{", its body, "}"
DocLen == 3

\* a file: its mode, the document written into it (a key record or the
\* config of a backup with the paths it lists) and how much of the document
\* the file holds
NoFile == [mode |-> "none", kind |-> "none", rec |-> "", names |-> {}, n |-> 0]
KeyDoc(rec) == [kind |-> "key", rec |-> rec, names |-> {}, n |-> DocLen]
ConfigDoc(paths) == [kind |-> "config", rec |-> "", names |-> paths, n |-> DocLen]

\* what a file holds, its mode left out
Content(f) == [kind |-> f.kind, rec |-> f.rec, names |-> f.names, n |-> f.n]

\* the mode of a file that open(2) creates with permission perm
CreateMode(perm, umask) ==
    IF perm = "0600" THEN "0600"
    ELSE IF umask = "077" THEN "0600" ELSE "0644"

\* open(path, O_WRONLY|O_CREATE|O_TRUNC, perm): an existing file is emptied
\* and keeps its mode, a new one gets perm less the umask
OpenTrunc(f, perm, umask) ==
    [mode |-> IF f = NoFile THEN CreateMode(perm, umask) ELSE f.mode,
     kind |-> "none", rec |-> "", names |-> {}, n |-> 0]

\* the first n pieces of doc written into the opened file f
WriteDoc(f, doc, n) ==
    [mode |-> f.mode, kind |-> doc.kind, rec |-> doc.rec, names |-> doc.names,
     n |-> IF n < doc.n THEN n ELSE doc.n]

\* Manager.LoadKey(name) on the directory dir: os.ReadFile, json.Unmarshal
\* into an EncryptedKey (any complete JSON object parses; the fields it
\* lacks stay empty)
LoadKey(dir, name) ==
    LET f == dir[FilePath(name)]
    IN IF f = NoFile
       THEN [err |-> "failed to read keystore file", rec |-> ""]
       ELSE IF f.n < DocLen
       THEN [err |-> "failed to unmarshal key", rec |-> ""]
       ELSE [err |-> "nil", rec |-> f.rec]

\* Manager.ListKeys() on the directory dir: the names of the files whose
\* extension is .json, the extension cut off
ListKeys(dir) ==
    {p[1] : p \in {q \in DOMAIN dir : dir[q] # NoFile /\ q[Len(q)] = ".json"}}

NoRet == [op |-> "none", name |-> "", err |-> "", rec |-> "", names |-> {}]
NoSave == [name |-> "", rec |-> "", prev |-> [err |-> "", rec |-> ""]]
NoEntry == [plain |-> NoFile, key |-> <<>>, intact |-> TRUE]
NoArchive == [made |-> FALSE, entries |-> [p \in FilePaths |-> NoEntry],
              orig |-> [p \in FilePaths |-> NoFile]]

KsInit ==
    /\ kdir = [p \in FilePaths |-> NoFile]
    /\ kpc = "idle"
    /\ ksave = NoSave
    /\ kret = NoRet
    /\ kexp = [name \in Names |-> "none"]
    /\ archive = NoArchive
    /\ rret = "none"

\* SaveKey(key, name) up to the open of os.WriteFile(filePath, data, 0600);
\* no umask of the model clears a bit of 0600
SaveOpen(name, rec) ==
    /\ kpc = "idle"
    /\ ksave' = [name |-> name, rec |-> rec, prev |-> LoadKey(kdir, name)]
    /\ kdir' = [kdir EXCEPT ![FilePath(name)] = OpenTrunc(@, "0600", "022")]
    /\ kpc' = "writing"
    /\ UNCHANGED <<kret, kexp, archive, rret>>
    /\ UNCHANGED <<monVars, batchVars, histVars, cipherVars>>

\* os.WriteFile writes the document and closes the file, SaveKey returns nil
SaveWrite ==
    /\ kpc = "writing"
    /\ kdir' = [kdir EXCEPT ![FilePath(ksave.name)] =
                   WriteDoc(@, KeyDoc(ksave.rec), DocLen)]
    /\ kret' = [NoRet EXCEPT !.op = "save", !.name = ksave.name, !.err = "nil"]
    /\ kexp' = [kexp EXCEPT ![ksave.name] = ksave.rec]
    /\ kpc' = "idle"
    /\ UNCHANGED <<ksave, archive, rret>>
    /\ UNCHANGED <<monVars, batchVars, histVars, cipherVars>>

\* the write fails after n pieces; SaveKey returns the error
SaveWriteFail(n) ==
    /\ kpc = "writing"
    /\ kdir' = [kdir EXCEPT ![FilePath(ksave.name)] =
                   WriteDoc(@, KeyDoc(ksave.rec), n)]
    /\ kret' = [NoRet EXCEPT !.op = "save", !.name = ksave.name,
                             !.err = "failed to write keystore file"]
    /\ kpc' = "idle"
    /\ UNCHANGED <<ksave, kexp, archive, rret>>
    /\ UNCHANGED <<monVars, batchVars, histVars, cipherVars>>

\* the process crashes during SaveKey, n pieces of the document written, and
\* is started again
Crash(n) ==
    /\ kpc = "writing"
    /\ kdir' = [kdir EXCEPT ![FilePath(ksave.name)] =
                   WriteDoc(@, KeyDoc(ksave.rec), n)]
    /\ kret' = NoRet
    /\ kexp' = [kexp EXCEPT ![ksave.name] = "unknown"]
    /\ kpc' = "idle"
    /\ UNCHANGED <<ksave, archive, rret>>
    /\ UNCHANGED <<monVars, batchVars, histVars, cipherVars>>

\* a caller calls Manager.LoadKey(name)
CallLoadKey(name) ==
    /\ kpc = "idle"
    /\ kret' = [NoRet EXCEPT !.op = "load", !.name = name,
                             !.err = LoadKey(kdir, name).err,
                             !.rec = LoadKey(kdir, name).rec]
    /\ UNCHANGED <<kdir, kpc, ksave, kexp, archive, rret>>
    /\ UNCHANGED <<monVars, batchVars, histVars, cipherVars>>

\* a caller calls Manager.ListKeys()
CallListKeys ==
    /\ kpc = "idle"
    /\ kret' = [NoRet EXCEPT !.op = "list", !.names = ListKeys(kdir)]
    /\ UNCHANGED <<kdir, kpc, ksave, kexp, archive, rret>>
    /\ UNCHANGED <<monVars, batchVars, histVars, cipherVars>>

\* Manager.DeleteKey(name): os.Remove of the file, its error returned
DeleteKey(name) ==
    /\ kpc = "idle"
    /\ IF kdir[FilePath(name)] = NoFile
       THEN /\ kret' = [NoRet EXCEPT !.op = "delete", !.name = name,
                                    !.err = "no such file or directory"]
            /\ UNCHANGED <<kdir, kexp>>
       ELSE /\ kret' = [NoRet EXCEPT !.op = "delete", !.name = name, !.err = "nil"]
            /\ kdir' = [kdir EXCEPT ![FilePath(name)] = NoFile]
            /\ kexp' = [kexp EXCEPT ![name] = "none"]
    /\ UNCHANGED <<kpc, ksave, archive, rret>>
    /\ UNCHANGED <<monVars, batchVars, histVars, cipherVars>>

\* deriveKey(password) of backup.go: SHA-256 of the password
deriveBackupKey(password) == <<"sha256", password>>

\* encryptData(data, password): the data sealed under the derived key
encryptData(data, password) ==
    [plain |-> data, key |-> deriveBackupKey(password), intact |-> TRUE]

\* decryptData(data, password): gcm.Open gives the data back when the entry
\* is as sealed and the key is the one it was sealed under
decryptData(entry, password) ==
    IF entry.intact /\ entry.key = deriveBackupKey(password)
    THEN [err |-> FALSE, plain |-> entry.plain]
    ELSE [err |-> TRUE, plain |-> NoFile]

\* CreateBackup(keystoreDir, backupPath, password): the .json files of the
\* directory are copied into a temporary directory and listed in the config,
\* the config is written there as backup.json, and every file of the
\* temporary directory becomes an encrypted entry of the archive
CreateBackup(password) ==
    /\ kpc = "idle"
    /\ LET listed == {p \in FilePaths : kdir[p] # NoFile /\ p[Len(p)] = ".json"}
           copied == [p \in FilePaths |-> IF p \in listed THEN Content(kdir[p])
                                          ELSE Content(NoFile)]
           temp == [copied EXCEPT ![ConfigPath] = ConfigDoc(listed)]
       IN archive' = [made |-> TRUE,
                      entries |-> [p \in FilePaths |->
                                     IF temp[p] = Content(NoFile) THEN NoEntry
                                     ELSE encryptData(temp[p], password)],
                      orig |-> kdir]
    /\ UNCHANGED <<kdir, kpc, ksave, kret, kexp, rret>>
    /\ UNCHANGED <<monVars, batchVars, histVars, cipherVars>>

\* somebody alters the bytes of an entry of the archive
TamperEntry(p) ==
    /\ archive.made
    /\ archive.entries[p] # NoEntry
    /\ archive.entries[p].intact
    /\ archive' = [archive EXCEPT !.entries[p].intact = FALSE]
    /\ UNCHANGED <<kdir, kpc, ksave, kret, kexp, rret>>
    /\ UNCHANGED <<monVars, batchVars, histVars, cipherVars>>

\* copyFile(src, dst): os.Create(dst) is an open with O_TRUNC and permission
\* 0666, then the bytes of src are copied
copyFile(src, dst, umask) ==
    [OpenTrunc(dst, "0666", umask) EXCEPT
        !.kind = src.kind, !.rec = src.rec, !.names = src.names, !.n = src.n]

\* RestoreBackup(backupPath, keystoreDir, password): every entry is decrypted
\* into a temporary directory, the first that fails ends the restore; then
\* the files the config lists are copied into the keystore directory
RestoreBackup(password, umask) ==
    /\ kpc = "idle"
    /\ archive.made
    /\ LET present == {p \in FilePaths : archive.entries[p] # NoEntry}
           temp == [p \in FilePaths |-> decryptData(archive.entries[p], password)]
       IN IF \E p \in present : temp[p].err
          THEN /\ rret' = "failed to extract backup"
               /\ UNCHANGED kdir
          ELSE /\ rret' = "nil"
               /\ kdir' = [p \in FilePaths |->
                              IF p \in temp[ConfigPath].plain.names
                              THEN copyFile(temp[p].plain, kdir[p], umask)
                              ELSE kdir[p]]
    /\ UNCHANGED <<kpc, ksave, kret, kexp, archive>>
    /\ UNCHANGED <<monVars, batchVars, histVars, cipherVars>>

\* the manager with callers that save, load, list and delete, one call at a
\* time
KsNext ==
    \/ \E name \in Names, rec \in Records : SaveOpen(name, rec)
    \/ SaveWrite
    \/ \E n \in 0..(DocLen - 1) : SaveWriteFail(n)
    \/ \E n \in 0..DocLen : Crash(n)
    \/ \E name \in Names : CallLoadKey(name)
    \/ CallListKeys
    \/ \E name \in Names : DeleteKey(name)

\* the manager with callers that save and delete keys and make and restore
\* backups of the keystore directory
BackupNext ==
    \/ \E name \in Names, rec \in Records : SaveOpen(name, rec)
    \/ SaveWrite
    \/ \E name \in Names : DeleteKey(name)
    \/ CreateBackup(BackupPassword)
    \/ \E p \in FilePaths : TamperEntry(p)
    \/ \E password \in BackupPasswords, umask \in Umasks : RestoreBackup(password, umask)

\* the state after construction of the components
Init == MonInit /\ BatchInit /\ HistInit /\ CipherInit /\ KsInit

SpecMonitor == Init /\ [][MonNext]_vars
SpecReaders == Init /\ [][ReadNext]_vars

\* the scheduling of a polling goroutine: the ticker delivers a tick every 5
\* seconds, the query returns, a goroutine that can run does run; select
\* chooses at random among its ready cases, so a case that is ready again
\* and again is taken; sync.RWMutex hands the lock to a waiting Lock(); a
\* callback that waits for nothing returns
MonFairness ==
    \A h \in Hashes :
       /\ WF_vars(SelectTick(h))
       /\ SF_vars(SelectDone(h))
       /\ WF_vars(QueryReturn(h))
       /\ SF_vars(UpdLock(h))
       /\ WF_vars(UpdStatus(h))
       /\ WF_vars(UpdBlockNum(h))
       /\ WF_vars(UpdGasUsed(h))
       /\ WF_vars(UpdError(h))
       /\ WF_vars(UpdTimestamp(h))
       /\ WF_vars(UpdCallback(h))
       /\ WF_vars(UpdUnlock(h))

\* the monitor with callers that register one callback function and remove
\* none, under the scheduling of the polling goroutines
PollNext ==
    \/ \E h \in Hashes : MonitorTransaction(h)
    \/ \E h \in Hashes : Cancel(h)
    \/ \E h \in Hashes : SelectDone(h)
    \/ \E h \in Hashes : SelectTick(h)
    \/ \E h \in Hashes : QueryReturn(h)
    \/ \E h \in Hashes : UpdLock(h)
    \/ \E h \in Hashes : UpdStatus(h)
    \/ \E h \in Hashes : UpdBlockNum(h)
    \/ \E h \in Hashes : UpdGasUsed(h)
    \/ \E h \in Hashes : UpdError(h)
    \/ \E h \in Hashes : UpdTimestamp(h)
    \/ \E h \in Hashes : UpdCallback(h)
    \/ \E h \in Hashes : UpdUnlock(h)
    \/ \E h \in Hashes, cb \in {"cbB", "cbR"} : AddCallback(h, cb)

\* the monitor with callers that read it, and with callbacks that do
ReentNext ==
    \/ \E h \in Hashes : MonitorTransaction(h)
    \/ \E h \in Hashes : SelectTick(h)
    \/ \E h \in Hashes : QueryReturn(h)
    \/ \E h \in Hashes : UpdLock(h)
    \/ \E h \in Hashes : UpdStatus(h)
    \/ \E h \in Hashes : UpdBlockNum(h)
    \/ \E h \in Hashes : UpdGasUsed(h)
    \/ \E h \in Hashes : UpdError(h)
    \/ \E h \in Hashes : UpdTimestamp(h)
    \/ \E h \in Hashes : UpdCallback(h)
    \/ \E h \in Hashes : UpdUnlock(h)
    \/ \E c \in Callers, h \in Hashes : GetStatus(c, h)
    \/ \E h \in Hashes, cb \in {"cbB", "cbR"} : AddCallback(h, cb)
    \/ \E h \in Hashes, cb \in {"cbB", "cbR"} : RemoveCallback(h, cb)

SpecReentrant == Init /\ [][ReentNext]_vars

\* one monitored hash, with callers that register and remove callbacks of
\* every kind on every hash
RegNext ==
    \/ MonitorTransaction("h1")
    \/ \E h \in Hashes : SelectTick(h)
    \/ \E h \in Hashes : QueryReturn(h)
    \/ \E h \in Hashes : UpdLock(h)
    \/ \E h \in Hashes : UpdStatus(h)
    \/ \E h \in Hashes : UpdBlockNum(h)
    \/ \E h \in Hashes : UpdGasUsed(h)
    \/ \E h \in Hashes : UpdError(h)
    \/ \E h \in Hashes : UpdTimestamp(h)
    \/ \E h \in Hashes : UpdCallback(h)
    \/ \E h \in Hashes : UpdUnlock(h)
    \/ \E h \in Hashes, cb \in Callbacks : AddCallback(h, cb)
    \/ \E h \in Hashes, cb \in Callbacks : RemoveCallback(h, cb)

SpecRegistry == Init /\ [][RegNext]_vars

SpecPolling == Init /\ [][PollNext]_vars /\ MonFairness
SpecBatch == Init /\ [][BatchNext]_vars
SpecHistory == Init /\ [][HistNext]_vars
SpecStore == Init /\ [][StoreNext]_vars
SpecRecent == Init /\ [][RecentNext]_vars
SpecCipher == Init /\ [][CipherNext]_vars
SpecKeystore == Init /\ [][KsNext]_vars
SpecBackup == Init /\ [][BackupNext]_vars

\* ------------------------------------------------------------------------
\* Properties of tx.Monitor
\* ------------------------------------------------------------------------
\* the transition of h is complete: a terminal status, updateStatus has returned
Settled(h) ==
    /\ statuses[h] # NoStatus
    /\ statuses[h].Status \in Terminal
    /\ mu # h

\* C1: a status leaves Pending at most once; once the transition of a hash
\* to Success, Failed or Error is complete, no step changes its status
\* fields, dispatches a callback for it or issues a ledger query for it.
C1_TerminalIsFinal ==
    [][\A h \in Hashes :
         /\ (statuses[h] # NoStatus /\ statuses[h].Status \in Terminal)
               => statuses'[h].Status = statuses[h].Status
         /\ Settled(h) => /\ statuses'[h] = statuses[h]
                          /\ invoked'[h] = invoked[h]
                          /\ pc'[h] = "exited"
                          /\ mu' # h]_vars

C1_Witness ==
    \E h \in Hashes : Settled(h) /\ pc[h] = "exited" /\ invoked[h] # <<>>
                      /\ callbacks[h] # <<>>

\* C2: after the cancellation signal of a hash has been raised, its polling
\* task writes no status field and dispatches no callback.
C2_NoWriteAfterCancel ==
    [][\A h \in Hashes :
         cancelled[h] => /\ statuses'[h] = statuses[h]
                         /\ invoked'[h] = invoked[h]]_vars

\* C4: GetStatus fails with NotMonitored exactly for a hash never
\* registered; the value it returned keeps the content it had at the return
\* (no later update shows through it, no partial update) and the caller
\* cannot change the monitor's record through it.
C4_SnapshotRead ==
    \A c \in Callers :
       /\ got[c].err = "NotMonitored" => got[c].ref = "nil"
       /\ got[c].ref \in Hashes => statuses[got[c].ref] = got[c].snap
       /\ \A h \in Hashes : statuses[h].Status # "absent"
                               => statuses[h].Error # "edited by caller"

\* the record a completed poll must leave for the query outcome o
ExpectedRecord(o) ==
    IF o.kind = "receipt"
    THEN [Status |-> IF o.status = 0 THEN "failed" ELSE "success",
          BlockNum |-> o.blockNum, GasUsed |-> o.gasUsed, Error |-> "",
          Timestamp |-> 2]
    ELSE [Status |-> "error", BlockNum |-> 0, GasUsed |-> 0, Error |-> o.text,
          Timestamp |-> 2]

\* C8: the outcome of a poll alone determines the next status: a failed
\* receipt gives Failed, another receipt Success (with block number and gas
\* used), "not found" leaves the record as registered and the task polls
\* again, another error gives Error with its text; the status changes in no
\* other way.
C8_PollTransitions ==
    [][\A h \in Hashes :
         /\ (pc[h] = "query" /\ pc'[h] # "query")
               => /\ res'[h] \in AllOutcomes
                  /\ statuses'[h] = statuses[h]
                  /\ IF res'[h].kind = "err" /\ res'[h].text = "not found"
                     THEN pc'[h] = "select"
                     ELSE pc'[h] = "updateStatus"
         /\ pc'[h] \in {"select", "query"} => statuses'[h] = NewStatus
         /\ (mu = h /\ mu' # h) => /\ res[h] \in AllOutcomes \ {[kind |-> "err", text |-> "not found"]}
                                   /\ statuses'[h] = ExpectedRecord(res[h])
         /\ (statuses[h] # NoStatus /\ statuses'[h] # statuses[h])
               => /\ mu = h
                  /\ pc[h] \in {"setStatus", "setBlockNum", "setGasUsed",
                                "setError", "setTimestamp"}
                  /\ statuses'[h].Status \in Terminal]_vars

C8_Witness ==
    \E h, g \in Hashes :
       /\ Settled(h) /\ statuses[h].Status = "failed"
       /\ statuses[h].BlockNum \in BlockNums /\ statuses[h].GasUsed \in GasVals
       /\ pc[g] = "select" /\ res[g].kind = "err"

\* C9: MonitorTransaction on an untracked hash registers it as Pending and
\* starts its polling task; on a tracked hash it fails with AlreadyMonitored
\* and changes neither the maps nor any task; tracked hashes stay tracked.
C9_AlreadyMonitored ==
    [][\A h \in Hashes :
         /\ MonitorTransaction(h)
               => IF statuses[h] # NoStatus
                  THEN /\ monErr' = "AlreadyMonitored"
                       /\ UNCHANGED <<statuses, callbacks, pc, cancelled,
                                      taskVars, invoked, mu>>
                  ELSE /\ monErr' = "nil"
                       /\ pc[h] = "none" /\ pc'[h] = "select"
                       /\ statuses'[h] = NewStatus
                       /\ \A g \in Hashes \ {h} :
                             statuses'[g] = statuses[g] /\ pc'[g] = pc[g]
                       /\ callbacks' = callbacks
         /\ statuses[h] # NoStatus => statuses'[h] # NoStatus
         /\ (pc[h] = "none") = (statuses[h] = NoStatus)]_vars

C9_Witness ==
    /\ monErr = "AlreadyMonitored"
    /\ \E h \in Hashes : pc[h] = "exited" /\ statuses[h].Status = "pending"
    /\ \A h \in Hashes : statuses[h] # NoStatus

\* the invocations a dispatch over the callback list l owes, given record r
Owed(l, r) == [i \in 1..Len(l) |-> [cb |-> l[i], rec |-> r]]

\* C10: when a hash changes state, the callbacks registered for it at that
\* moment are each invoked once, in registration order, with the final
\* record, before the polling task exits; nothing else is invoked.
C10_Dispatch ==
    [][\A h \in Hashes :
         /\ mu = h => callbacks'[h] = callbacks[h]
         /\ (mu = h /\ mu' # h) => /\ invoked'[h] = Owed(callbacks[h], statuses'[h])
                                   /\ pc'[h] = "exited"
         /\ (pc[h] # "exited" /\ pc'[h] = "exited" /\ statuses[h].Status \in Terminal)
               => invoked'[h] = Owed(callbacks[h], statuses'[h])
         /\ invoked'[h] # invoked[h]
               => /\ mu = h
                  /\ \A g \in Hashes \ {h} : invoked'[g] = invoked[g]]_vars

C10_Witness ==
    \E h \in Hashes :
       /\ pc[h] = "exited"
       /\ Len(invoked[h]) = 2
       /\ invoked[h][1].cb # invoked[h][2].cb
       /\ invoked[h][2].rec = statuses[h]

\* C11: the dispatch for one hash does not block the work on another hash:
\* while the callbacks of hash a are being run, the polling task of another
\* hash b that has an outcome to record can enter updateStatus.
C11_NoCrossHashBlocking ==
    \A a, b \in Hashes :
       (a # b /\ pc[a] = "callbacks" /\ cbIdx[a] < Len(cbList[a])
              /\ pc[b] = "updateStatus")
          => ENABLED UpdLock(b)

\* the status fields of h are being written or its callbacks are being run
InDispatch(h) ==
    pc[h] \in {"setStatus", "setBlockNum", "setGasUsed", "setError",
               "setTimestamp", "callbacks"}

\* C12: AddCallback and RemoveCallback never change the list of a hash while
\* a dispatch for it runs: the dispatch invokes the callbacks registered at
\* its beginning, one after the other, none skipped and none twice; a
\* registration or a removal changes the list only outside a dispatch.
C12_StableDispatch ==
    [][\A h \in Hashes :
         /\ pc[h] = "callbacks" => /\ cbList[h] = callbacks[h]
                                   /\ cbIdx[h] = Len(invoked[h])
         /\ callbacks'[h] # callbacks[h]
               => /\ ~InDispatch(h) /\ mu = NoHolder
                  /\ invoked' = invoked /\ cbList' = cbList
         /\ invoked'[h] # invoked[h]
               => /\ Len(invoked'[h]) = Len(invoked[h]) + 1
                  /\ invoked'[h][Len(invoked'[h])].cb = callbacks[h][Len(invoked'[h])]
                  /\ SubSeq(invoked'[h], 1, Len(invoked[h])) = invoked[h]
         /\ (pc[h] = "callbacks" /\ pc'[h] # "callbacks")
               => Len(invoked[h]) = Len(callbacks[h])]_vars

C12_Witness ==
    \E h \in Hashes :
       /\ pc[h] = "exited"
       /\ Len(invoked[h]) = 1
       /\ callbacks[h] # <<>>
       /\ callbacks[h][1] # invoked[h][1].cb

\* C13 as stated: every error of a query is transient, the hash stays
\* Pending and the task goes back to wait for the next tick.
C13_QueryErrorTransient ==
    [][\A h \in Hashes :
         /\ (pc[h] = "query" /\ pc'[h] # "query" /\ res'[h].kind = "err")
               => pc'[h] = "select"
         /\ res[h].kind = "err" => statuses'[h].Status = "pending"]_vars

\* C13, amended: only the answer "not found" is transient: nothing is
\* written, the hash stays Pending and the task waits for the next tick;
\* every other error of a query is surfaced at once, as the terminal status
\* Error carrying the error's text.
C13_OnlyNotFoundRetried ==
    [][\A h \in Hashes :
         /\ (pc[h] = "query" /\ pc'[h] # "query" /\ res'[h].kind = "err")
               => IF res'[h].text = "not found"
                  THEN /\ pc'[h] = "select"
                       /\ statuses'[h] = statuses[h]
                       /\ statuses[h].Status = "pending"
                  ELSE /\ pc'[h] = "updateStatus"
                       /\ args'[h].status = "error"
                       /\ args'[h].errMsg = res'[h].text
         /\ (res[h].kind = "err" /\ mu = h /\ mu' # h)
               => /\ statuses'[h].Status = "error"
                  /\ statuses'[h].Error = res[h].text
                  /\ res[h].text # "not found"]_vars

C13_Witness ==
    \E h, g \in Hashes :
       /\ pc[h] = "select" /\ res[h] = [kind |-> "err", text |-> "not found"]
       /\ statuses[h].Status = "pending"
       /\ Settled(g) /\ statuses[g].Status = "error"
       /\ statuses[g].Error = "timeout"

\* C14: under fair scheduling the polling task of a hash exits once a poll
\* has returned a receipt or an error other than "not found" (the task has
\* an outcome to record), and once the cancellation of its context has been
\* requested; it can go on polling only while neither has happened. A
\* callback that calls the monitor keeps the task in its dispatch for ever.
C14_PollingTerminates ==
    \A h \in Hashes :
       /\ (pc[h] = "updateStatus") ~> (pc[h] = "exited")
       /\ cancelled[h] ~> (pc[h] = "exited")

\* ------------------------------------------------------------------------
\* Properties of core.BatchSigner
\* ------------------------------------------------------------------------
\* what signing the request r alone, as request number i, has to give
Alone(r, i) ==
    IF r.to = "addr" /\ r.prov = "ok"
    THEN [TransactionID |-> <<"tx_", i - 1>>, Signature |-> <<"0x", r.nonce>>,
          Error |-> ""]
    ELSE [TransactionID |-> <<"tx_", i - 1>>, Signature |-> <<>>,
          Error |-> IF r.to = "addr" THEN "failed to sign transaction"
                    ELSE "malformed transaction"]

\* C5: what SignBatch returns has one result per request, results[i] being
\* the outcome of signing requests[i] with identifier tx_i, whatever the
\* order in which the signing goroutines complete; no request, no result.
C5_ResultOrder ==
    bpc = "returned" =>
       /\ Len(results) = Len(requests)
       /\ \A i \in 1..Len(requests) :
             /\ results[i].TransactionID = <<"tx_", i - 1>>
             /\ results[i] = Alone(requests[i], i)

C5_Witness ==
    /\ bpc = "returned"
    /\ Len(results) = MaxBatch
    /\ results[1].Signature # results[MaxBatch].Signature
    /\ results[1].Error = "" /\ results[MaxBatch].Error = ""

\* C6: a request that cannot be signed (provider error or malformed
\* transaction) costs its own result only: the batch returns, with the
\* error in results[k] and every other result as signing alone gives it.
C6_Isolation ==
    /\ bpc # "crashed"
    /\ bpc = "returned" =>
          /\ Len(results) = Len(requests)
          /\ \A i \in 1..Len(requests) : results[i] = Alone(requests[i], i)

\* the signing goroutines of the running SignBatch that have not returned
InFlight == Cardinality({i \in DOMAIN wpc : wpc[i] \in {"start", "signed", "sent"}})

\* a worker limit the batches of MaxBatch requests exceed (the number of
\* execution units of the machine)
WorkerLimit == MaxBatch - 1

\* C15: at no moment of a SignBatch call are more signing units in flight
\* than the worker limit, also for a batch larger than the limit.
C15_WorkerLimit ==
    bpc = "collect" => InFlight <= WorkerLimit

\* C16: while SignBatch runs its workers do not write the signing secret,
\* and when SignBatch has returned the secret has been overwritten.
C16_SecretCleared ==
    [][/\ (bpc = "collect" /\ bpc' = "collect") => key' = key
       /\ bpc' = "returned" => key' = "zeroed"]_vars

\* C7: every returned result has either an error and no signature bytes, or
\* no error and the complete signature of its request.
C7_SignatureXorError ==
    bpc = "returned" =>
       \A i \in 1..Len(results) :
          IF results[i].Error # ""
          THEN results[i].Signature = <<>>
          ELSE results[i].Signature = <<"0x", requests[i].nonce>>

C7_Witness ==
    /\ bpc = "returned"
    /\ \E i, j \in 1..Len(results) :
          /\ results[i].Error # "" /\ results[i].Signature = <<>>
          /\ results[j].Error = "" /\ results[j].Signature # <<>>

\* ------------------------------------------------------------------------
\* Properties of tx.History
\* ------------------------------------------------------------------------
\* no AddTransaction call is running and none has reported an error
AllAppendsSucceeded ==
    /\ \A h \in Hashes : hpc[h] \in {"idle", "returned"}
    /\ \A h \in Hashes : hret[h] \in {"none", "nil"}
    /\ \E h \in Hashes : hret[h] = "nil"

\* C3: a successful return of AddTransaction means the record is in the
\* file: once the concurrent appends have all returned without error, the
\* persisted document parses to the in-memory record map.
C3_DurableAppend ==
    AllAppendsSucceeded =>
       /\ file.exists
       /\ WellFormed(file.data)
       /\ Unmarshal(file.data) = records

\* C17: the store holds one record per hash: a GetTransaction made while no
\* append of the hash is in progress returns the record of the most recent
\* append of that hash that succeeded, fails with not-found when there is
\* none, and changes neither the record map nor the file.
C17_GetLatestAppend ==
    [][\A h \in Hashes :
         (HistGet(h) /\ hpc[h] \in {"idle", "returned"})
            => /\ IF hok[h] = NoRecord
                  THEN /\ hgot'.err = "transaction not found in history"
                       /\ hgot'.rec = NoRecord
                  ELSE /\ hgot'.err = "nil"
                       /\ hgot'.rec = hok[h]
               /\ records' = records
               /\ file' = file]_vars

\* C18: the file is replaced atomically: whenever it exists it holds a
\* complete document, so that no load at a start of the store fails.
C18_AtomicReplace ==
    /\ file.exists => WellFormed(file.data)
    /\ hload = "nil"

\* C19: an append whose persist step failed has returned the I/O error and
\* has left no entry: its record is not what Get returns for the hash and
\* is in no result of the query by address or of Recent.
C19_FailedAppendNotKept ==
    \A h \in Hashes :
       (hpc[h] = "returned" /\ hret[h] = "IOError")
          => /\ records[h] # hrec[h]
             /\ hrec[h] \notin GetTransactionsByAddress(records, TxFrom(h))
             /\ \A i \in 1..Len(GetRecentTransactions(records, 0)) :
                   GetRecentTransactions(records, 0)[i] # hrec[h]

\* the store is up, no append is in progress and none has reported an error:
\* the records in memory have all been persisted
Persisted ==
    /\ hload = "nil"
    /\ \A h \in Hashes : hpc[h] \in {"idle", "returned"}
    /\ \A h \in Hashes : hret[h] \in {"none", "nil"}

\* C20: a restart with the records persisted loads the same records, field
\* by field, and Recent gives the same sequence as before; a restart without
\* a history file gives the empty record set and no error.
C20_ReloadRoundTrip ==
    [][HistRestart
         => /\ ~file.exists => /\ hload' = "nil"
                               /\ RecordsOf(records') = {}
            /\ Persisted => /\ hload' = "nil"
                            /\ records' = records
                            /\ GetRecentTransactions(records', 0)
                                  = GetRecentTransactions(records, 0)]_vars

\* ------------------------------------------------------------------------
\* Properties of the callback registry of tx.Monitor
\* ------------------------------------------------------------------------
\* the dispatch of h has reached a callback that calls the monitor
AtReentrant(h) ==
    /\ pc[h] = "callbacks"
    /\ cbIdx[h] < Len(cbList[h])
    /\ cbList[h][cbIdx[h] + 1] \in ReentrantCallbacks

\* C29: from the moment updateStatus of a hash holds the lock until it
\* releases it, the callbacks of the transition included, no GetStatus,
\* AddCallback, RemoveCallback or MonitorTransaction completes (no caller gets
\* an answer, no registration changes, no hash becomes monitored); a dispatch
\* that has reached a callback calling the monitor stays there with the lock
\* held, so its task never exits.
C29_DispatchHoldsLock ==
    [][\A h \in Hashes :
          mu = h =>
             /\ got' = got /\ callbacks' = callbacks /\ monErr' = monErr
             /\ \A g \in Hashes : statuses[g] = NoStatus => statuses'[g] = NoStatus
             /\ AtReentrant(h) =>
                   /\ mu' = h /\ pc'[h] = pc[h] /\ cbIdx'[h] = cbIdx[h]
                   /\ invoked'[h] = invoked[h]]_vars

\* a dispatch blocked in a callback behind a callback that has returned,
\* with the task of the other hash waiting for the lock
C29_Witness ==
    \E h, g \in Hashes :
       /\ AtReentrant(h) /\ mu = h /\ cbIdx[h] = 1
       /\ g # h /\ pc[g] = "updateStatus"

\* the registrations of h as they are after removing the first of them that
\* prints like cb, stated position by position
RemovedFirstMatch(old, new, cb) ==
    \E i \in 1..Len(old) :
       /\ Fmt(old[i]) = Fmt(cb)
       /\ \A j \in 1..(i - 1) : Fmt(old[j]) # Fmt(cb)
       /\ Len(new) = Len(old) - 1
       /\ \A j \in 1..Len(new) : new[j] = IF j < i THEN old[j] ELSE old[j + 1]

Range(s) == {s[i] : i \in 1..Len(s)}

\* C21: GetRecentTransactions(limit) returns stored records, each once, the
\* later before the earlier; limit of them when 0 < limit < number of records
\* and then none it leaves out is later than one it returns, all of them
\* otherwise; the map and the file are as before the call.
C21_Recent ==
    [][\A limit \in RecentLimits :
          HistRecent(limit) =>
             LET out == hrecent'.recs
                 held == RecordsOf(records)
                 n == Cardinality(held)
             IN /\ Range(out) \subseteq held
                /\ \A i, j \in 1..Len(out) :
                      i < j => out[i].Timestamp > out[j].Timestamp
                /\ Len(out) = IF 0 < limit /\ limit < n THEN limit ELSE n
                /\ \A r \in held \ Range(out) :
                      \A i \in 1..Len(out) : r.Timestamp < out[i].Timestamp
                /\ records' = records /\ file' = file]_vars

\* a call with limit 1 on a store of two records answered the later one
C21_Witness ==
    /\ hrecent.called /\ hrecent.limit = 1 /\ Len(hrecent.recs) = 1
    /\ Cardinality(RecordsOf(records)) = 2
    /\ \A r \in RecordsOf(records) : r.Timestamp <= hrecent.recs[1].Timestamp

\* ------------------------------------------------------------------------
\* Properties of keystore.EncryptKey and keystore.DecryptKey
\* ------------------------------------------------------------------------
\* C25: for every secret and every password EncryptKey returns a record, and
\* DecryptKey of that record, unaltered, with the same password returns the
\* secret.
C25_RoundTrip ==
    /\ eout # "panic"
    /\ (dres.called /\ dres.pw = epw /\ dres.key = ekey)
          => (dres.err = "nil" /\ dres.plain = esecret)

\* C26: DecryptKey of the record of a private key with another password
\* than the one of EncryptKey, or after the encrypted bytes, the tag or the
\* mac field of the record have been altered, whatever the password, returns
\* the authentication error and no plaintext.
C26_FailsClosed ==
    (dres.called /\ ValidScalar(esecret)
        /\ (\/ dres.pw # epw
            \/ dres.key.ciphertext # ekey.ciphertext
            \/ dres.key.mac # ekey.mac))
       => (dres.err = "failed to decrypt key" /\ dres.plain = <<>>)

\* two records that differ in the declared derivation only
OnlyKdfDiffers(k1, k2) ==
    /\ <<k1.kdf, k1.c>> # <<k2.kdf, k2.c>>
    /\ [k1 EXCEPT !.kdf = k2.kdf, !.c = k2.c] = k2

\* C27: the key DecryptKey gives to the cipher is not the single SHA-256 of
\* password and salt, and two decryptions under one password of records that
\* differ only in the declared derivation function or iteration count use
\* different keys.
C27_DeclaredKdfHonored ==
    [][\A password \in Passwords :
          (Decrypt(password) /\ dres'.derived # <<>>) =>
             /\ dres'.derived #
                   Sha256(password \o DecodeString(Strip2(stored.salt)).bytes)
             /\ (dres.called /\ dres.pw = password /\ OnlyKdfDiffers(dres.key, stored))
                   => dres'.derived # dres.derived]_vars

\* ------------------------------------------------------------------------
\* Properties of keystore.Manager and of the backups
\* ------------------------------------------------------------------------
\* what LoadKey answers for a name of a map holding kexp
Expected(name) ==
    IF kexp[name] = "none"
    THEN [err |-> "failed to read keystore file", rec |-> ""]
    ELSE [err |-> "nil", rec |-> kexp[name]]

\* C22: between the calls, ListKeys gives the names saved and not deleted
\* since, LoadKey(name) gives the record of the last SaveKey of the name and
\* the not-found error for a name that is not there (a name whose SaveKey was
\* cut by a crash is left out), and a LoadKey or DeleteKey that fails changes
\* no file.
C22_KeystoreMap ==
    /\ [](kpc = "idle" =>
            \A name \in Names :
               kexp[name] # "unknown" =>
                  /\ LoadKey(kdir, name) = Expected(name)
                  /\ (name \in ListKeys(kdir)) <=> (kexp[name] # "none"))
    /\ [][\A name \in Names :
             ((CallLoadKey(name) \/ DeleteKey(name)) /\ kret'.err # "nil")
                => kdir' = kdir]_vars

\* C23: when the process crashes during SaveKey(key, name), LoadKey(name)
\* then answers what it answered before the SaveKey (the previous record, or
\* not found) or the new record.
C23_AtomicSave ==
    [][\A n \in 0..DocLen :
          Crash(n) =>
             LoadKey(kdir', ksave.name) \in
                {ksave.prev, [err |-> "nil", rec |-> ksave.rec]}]_vars

\* C24: every file of the keystore directory has mode 0600, whatever
\* SaveKey, DeleteKey, CreateBackup and RestoreBackup calls were made (the
\* directories are all made by os.MkdirAll(dir, 0700)).
C24_OwnerOnly ==
    \A p \in FilePaths : kdir[p] # NoFile => kdir[p].mode = "0600"

\* C28: a RestoreBackup with a password that is not the backup's, or of an
\* archive with an altered entry, returns an error and leaves the keystore
\* directory as it was; with the password of the backup and the archive as
\* written, a restore into an empty directory returns nil and the directory
\* then holds the files CreateBackup archived, and no other.
C28_RestoreAllOrNothing ==
    [][\A password \in BackupPasswords, umask \in Umasks :
          RestoreBackup(password, umask) =>
             IF \/ password # BackupPassword
                \/ \E p \in FilePaths : ~archive.entries[p].intact
             THEN rret' # "nil" /\ kdir' = kdir
             ELSE (\A p \in FilePaths : kdir[p] = NoFile) =>
                     /\ rret' = "nil"
                     /\ \A p \in FilePaths :
                           Content(kdir'[p]) = Content(archive.orig[p])]_vars
====
